---- MODULE Spec2Model ----
(***************************************************************************)
(* Model of the student-records backend                                    *)
(* (src/student_management_backend/src/api/main.py): the in-memory store   *)
(* `students` and the five request handlers that read and write it.        *)
(*                                                                         *)
(* Strings are sequences of one-character strings, so that strip(),        *)
(* lower() and the length constraints are computed, not assumed.  Optional *)
(* values are sequences of length 0 (None) or 1.                           *)
(***************************************************************************)
EXTENDS Integers, Sequences, FiniteSets, TLC

VARIABLES students, issued, req, resp, threads

vars == <<students, issued, req, resp, threads>>

(***************************************************************************)
(* Bounds of the model.                                                    *)
(***************************************************************************)
\* number of identifiers uuid4 can hand out in one run
MaxIds == 2

\* number of worker threads that run handlers at the same time
MaxThreads == 2

(***************************************************************************)
(* Characters and strings.                                                 *)
(***************************************************************************)
UpperChars == <<"A","B","C","D","E","F","G","H","I","J","K","L","M",
                "N","O","P","Q","R","S","T","U","V","W","X","Y","Z">>

LowerChars == <<"a","b","c","d","e","f","g","h","i","j","k","l","m",
                "n","o","p","q","r","s","t","u","v","w","x","y","z">>

IsUpper(c) == \E i \in 1..26 : UpperChars[i] = c

IsLower(c) == \E i \in 1..26 : LowerChars[i] = c

\* code point of a character (ASCII), for the characters the model uses
Ord(c) ==
    IF IsUpper(c) THEN 64 + (CHOOSE i \in 1..26 : UpperChars[i] = c)
    ELSE IF IsLower(c) THEN 96 + (CHOOSE i \in 1..26 : LowerChars[i] = c)
    ELSE IF c = "_" THEN 95
    ELSE 32

LowerChar(c) ==
    IF IsUpper(c) THEN LowerChars[CHOOSE i \in 1..26 : UpperChars[i] = c]
    ELSE c

\* str.lower()
Lower(s) == [i \in 1..Len(s) |-> LowerChar(s[i])]

IsSpace(c) == c = " "

RECURSIVE LStrip(_)
LStrip(s) ==
    IF s # <<>> /\ IsSpace(Head(s)) THEN LStrip(Tail(s)) ELSE s

RECURSIVE RStrip(_)
RStrip(s) ==
    IF s # <<>> /\ IsSpace(s[Len(s)]) THEN RStrip(SubSeq(s, 1, Len(s) - 1)) ELSE s

\* str.strip()
Strip(s) == RStrip(LStrip(s))

None == <<>>

Some(v) == <<v>>

(***************************************************************************)
(* Request model StudentIn: field constraints, then the validators.        *)
(***************************************************************************)
NameMinLength == 1
NameMaxLength == 100
ClassMinLength == 1
ClassMaxLength == 20
MarksGe == 0
MarksLe == 100

\* NameField without the strip of the validator
NameFieldUnstripped(v) ==
    IF Len(v) < NameMinLength \/ Len(v) > NameMaxLength THEN None
    ELSE IF Strip(v) = <<>> THEN None
    ELSE Some(v)

\* NameField that strips before it checks the length
NameFieldStripFirst(v) ==
    IF Len(Strip(v)) < NameMinLength \/ Len(Strip(v)) > NameMaxLength THEN None
    ELSE Some(Strip(v))

\* Field(min_length, max_length) on the value as received, then the
\* validator strips it and rejects an empty result
NameField(v) ==
    IF Len(v) < NameMinLength \/ Len(v) > NameMaxLength THEN None
    ELSE IF Strip(v) = <<>> THEN None
    ELSE Some(Strip(v))

\* ClassField without the strip of the validator
ClassFieldUnstripped(v) ==
    IF Len(v) < ClassMinLength \/ Len(v) > ClassMaxLength THEN None
    ELSE IF Strip(v) = <<>> THEN None
    ELSE Some(v)

ClassField(v) ==
    IF Len(v) < ClassMinLength \/ Len(v) > ClassMaxLength THEN None
    ELSE IF Strip(v) = <<>> THEN None
    ELSE Some(Strip(v))

MarksField(m) ==
    IF m < MarksGe \/ m > MarksLe THEN None ELSE Some(m)

\* StudentIn(**body): None when validation fails (the request is answered
\* 422 before the handler runs)
StudentIn(name, student_class, marks) ==
    IF NameField(name) = None \/ ClassField(student_class) = None
       \/ MarksField(marks) = None
    THEN None
    ELSE Some([name |-> NameField(name)[1],
               student_class |-> ClassField(student_class)[1],
               marks |-> MarksField(marks)[1]])

\* StudentOut(id=student_id, **student.dict())
StudentOut(id, student) ==
    [id |-> id, name |-> student.name,
     student_class |-> student.student_class, marks |-> student.marks]

\* StatusResponse(success, message, data)
StatusResponse(code, success, message, data) ==
    [kind |-> "outcome", status |-> code, success |-> success,
     message |-> message, data |-> data]

ValidationError == [kind |-> "error", status |-> 422, detail |-> "validation"]

MsgDuplicate == "A student with this name and class already exists."
MsgNotFound == "Student not found."
MsgCreated == "Student created successfully."
MsgUpdated == "Student updated successfully."
MsgDeleted == "Student deleted successfully."
MsgRetrieved == "Student retrieved successfully."

(***************************************************************************)
(* The store: a dict, i.e. entries (key, value) in insertion order with    *)
(* pairwise different keys.                                                *)
(***************************************************************************)
Keys(d) == {d[i].key : i \in 1..Len(d)}

\* key in dict
Contains(d, k) == k \in Keys(d)

IndexOf(d, k) == CHOOSE i \in 1..Len(d) : d[i].key = k

\* dict.get(key)
Get(d, k) == IF Contains(d, k) THEN Some(d[IndexOf(d, k)].value) ELSE None

\* SetItem that appends an entry also when the key is present
SetItemAppend(d, k, v) == Append(d, [key |-> k, value |-> v])

\* dict[key] = value: replaces in place, or appends a new key
SetItem(d, k, v) ==
    IF Contains(d, k)
    THEN [d EXCEPT ![IndexOf(d, k)] = [key |-> k, value |-> v]]
    ELSE Append(d, [key |-> k, value |-> v])

\* Pop that removes the entry and every entry inserted after it
PopFrom(d, k) == SubSeq(d, 1, (CHOOSE i \in 1..Len(d) : d[i].key = k) - 1)

\* Pop that removes the entry inserted last, whatever the key
PopLast(d, k) == SubSeq(d, 1, Len(d) - 1)

\* dict.pop(key), the dict that remains
Pop(d, k) ==
    LET i == IndexOf(d, k)
    IN  SubSeq(d, 1, i - 1) \o SubSeq(d, i + 1, Len(d))

\* list(dict.values())
Values(d) == [i \in 1..Len(d) |-> d[i].value]

\* uuid4 that can return any identifier again
uuid4Any(used) == 1..MaxIds

\* uuid4 that only avoids the keys now in the store
uuid4NotLive(used) == (1..MaxIds) \ Keys(students)

\* the identifiers uuid.uuid4() can return: one never returned before
Ids == 1..MaxIds

uuid4(used) == Ids \ used

\* SamePair without lower()
SamePairExact(s, student) ==
    /\ s.name = student.name
    /\ s.student_class = student.student_class

\* the comparison of create_student and update_student
SamePair(s, student) ==
    /\ Lower(s.name) = Lower(student.name)
    /\ Lower(s.student_class) = Lower(student.student_class)

\* the scan of create_student: some stored record has the pair
CreateCollision(d, student) ==
    \E i \in 1..Len(d) : SamePair(d[i].value, student)

\* UpdateCollision with the scan left out
UpdateCollisionSkipped(d, student_id, student) == FALSE

\* UpdateCollision that does not exclude the record being updated
UpdateCollisionAll(d, student_id, student) ==
    \E i \in 1..Len(d) : (Lower(d[i].value.name) = Lower(student.name)
                          /\ Lower(d[i].value.student_class) = Lower(student.student_class))

\* the scan of update_student: some record under another key has the pair
UpdateCollision(d, student_id, student) ==
    \E i \in 1..Len(d) : d[i].key # student_id /\ SamePair(d[i].value, student)

(***************************************************************************)
(* GET /students: filtering and sorting.                                   *)
(***************************************************************************)
\* FilterClass that ignores letter case
RECURSIVE FilterClassAnyCase(_, _)
FilterClassAnyCase(result, filter_class) ==
    IF result = <<>> THEN <<>>
    ELSE IF Lower(Head(result).student_class) = Lower(filter_class)
    THEN <<Head(result)>> \o FilterClassAnyCase(Tail(result), filter_class)
    ELSE FilterClassAnyCase(Tail(result), filter_class)

\* [stud for stud in result if stud.student_class == filter_class]
RECURSIVE FilterClass(_, _)
FilterClass(result, filter_class) ==
    IF result = <<>> THEN <<>>
    ELSE IF Head(result).student_class = filter_class
    THEN <<Head(result)>> \o FilterClass(Tail(result), filter_class)
    ELSE FilterClass(Tail(result), filter_class)

\* [stud for stud in result if stud.marks >= min_marks]
RECURSIVE FilterMin(_, _)
FilterMin(result, min_marks) ==
    IF result = <<>> THEN <<>>
    ELSE IF Head(result).marks >= min_marks
    THEN <<Head(result)>> \o FilterMin(Tail(result), min_marks)
    ELSE FilterMin(Tail(result), min_marks)

\* [stud for stud in result if stud.marks <= max_marks]
RECURSIVE FilterMax(_, _)
FilterMax(result, max_marks) ==
    IF result = <<>> THEN <<>>
    ELSE IF Head(result).marks <= max_marks
    THEN <<Head(result)>> \o FilterMax(Tail(result), max_marks)
    ELSE FilterMax(Tail(result), max_marks)

\* sort keys are sequences of integers: the code points of a string, or a
\* one-element sequence holding a number; KeyLess is Python's < on them
RECURSIVE KeyLess(_, _)
KeyLess(a, b) ==
    IF b = <<>> THEN FALSE
    ELSE IF a = <<>> THEN TRUE
    ELSE IF Head(a) # Head(b) THEN Head(a) < Head(b)
    ELSE KeyLess(Tail(a), Tail(b))

StrKey(s) == [i \in 1..Len(s) |-> Ord(s[i])]

\* the strings the handler compares sort_by.lower() with
StrName == <<"n","a","m","e">>
StrMarks == <<"m","a","r","k","s">>
StrStudentClass == <<"s","t","u","d","e","n","t","_","c","l","a","s","s">>

SortAttrs == {StrName, StrMarks, StrStudentClass}

\* key_map[sort_attr](s)
key_map(sort_attr, s) ==
    IF sort_attr = StrName THEN StrKey(Lower(s.name))
    ELSE IF sort_attr = StrMarks THEN <<s.marks>>
    ELSE StrKey(Lower(s.student_class))

\* insert x behind the elements that do not come after it
RECURSIVE InsertSorted(_, _, _, _)
InsertSorted(x, sorted, sort_attr, reverse) ==
    IF sorted = <<>> THEN <<x>>
    ELSE LET h == Head(sorted)
             after == IF reverse
                      THEN KeyLess(key_map(sort_attr, h), key_map(sort_attr, x))
                      ELSE KeyLess(key_map(sort_attr, x), key_map(sort_attr, h))
         IN  IF after THEN <<x>> \o sorted
             ELSE <<h>> \o InsertSorted(x, Tail(sorted), sort_attr, reverse)

\* list.sort(key=..., reverse=...): stable in both directions
RECURSIVE Sort(_, _, _)
Sort(xs, sort_attr, reverse) ==
    IF xs = <<>> THEN <<>>
    ELSE InsertSorted(xs[Len(xs)],
                      Sort(SubSeq(xs, 1, Len(xs) - 1), sort_attr, reverse),
                      sort_attr, reverse)

\* the three filters of get_students, in the handler's order
Filtered(d, filter_class, min_marks, max_marks) ==
    LET r0 == Values(d)
        r1 == IF filter_class # None THEN FilterClass(r0, filter_class[1]) ELSE r0
        r2 == IF min_marks # None THEN FilterMin(r1, min_marks[1]) ELSE r1
    IN  IF max_marks # None THEN FilterMax(r2, max_marks[1]) ELSE r2

\* Query(None, ge=0, le=100) of min_marks and max_marks
QueryMarksOk(m) == m = None \/ (m[1] >= 0 /\ m[1] <= 100)

BadRequest == [kind |-> "error", status |-> 400, detail |-> "Invalid sort_by field"]

ListResponse(result) == [kind |-> "list", status |-> 200, data |-> result]

(***************************************************************************)
(* Inputs.                                                                 *)
(***************************************************************************)
Body(name, student_class, marks) ==
    [name |-> name, student_class |-> student_class, marks |-> marks]

\* request bodies that pass validation: names and classes in both letter
\* cases and with surrounding blanks, marks at both ends of the range
ValidBodies ==
    { Body(n, c, m) : n \in { <<"a">>, <<"A", " ">>, <<"b">> },
                      c \in { <<"x">>, <<" ", "X">> },
                      m \in { 0, 100 } }

\* request bodies that fail validation, one per field
InvalidBodies ==
    { Body(<<" ">>, <<"x">>, 0), Body(<<"a">>, <<>>, 0), Body(<<"a">>, <<"x">>, 101) }

Bodies == ValidBodies \cup InvalidBodies

\* the string of n characters c
Rep(c, n) == [i \in 1..n |-> c]

LongName == Rep("a", NameMaxLength)

LongClass == Rep("x", ClassMaxLength)

\* request bodies around the length limits: name and class exactly at the
\* limit, one letter over it, and at the limit with one blank before or
\* behind; with them two short bodies and the bodies that fail validation
LimitBodies ==
    { Body(LongName, LongClass, 100),
      Body(LongName \o <<"a">>, <<"x">>, 0), Body(<<" ">> \o LongName, <<"x">>, 0),
      Body(<<"a">>, LongClass \o <<"x">>, 0), Body(<<"a">>, LongClass \o <<" ">>, 0),
      Body(<<"a">>, <<"x">>, 0), Body(<<"A", " ">>, <<" ", "X">>, 100) }
    \cup InvalidBodies

Query(sort_by, order, filter_class, min_marks, max_marks) ==
    [sort_by |-> sort_by, order |-> order, filter_class |-> filter_class,
     min_marks |-> min_marks, max_marks |-> max_marks]

Asc == <<"a","s","c">>
Desc == <<"d","e","s","c">>

\* values of the query parameter sort_by
SortBys == { None, Some(StrName), Some(<<"M","a","r","k","s">>),
             Some(<<"c","l","a","s","s">>), Some(<<"C","L","A","S","S">>),
             Some(StrStudentClass), Some(<<"i","d">>) }

FilterClasses == { None, Some(<<"x">>), Some(<<"X">>) }

\* every sort field in both orders over the whole store, and every
\* combination of the filters unsorted, sorted by name, and with a sort
\* field that is not recognised; one query whose min_marks is out of range
Queries ==
    { Query(sb, Some(o), None, None, None) : sb \in SortBys, o \in {Asc, Desc} }
    \cup
    { Query(sb, Some(Asc), fc, lo, hi) :
          sb \in { None, Some(StrName), Some(<<"i","d">>) },
          fc \in FilterClasses, lo \in { None, Some(100) }, hi \in { None, Some(0) } }
    \cup
    { Query(None, Some(Asc), None, Some(101), None) }

\* the worker threads of the pool that runs the handlers
Threads == 1..MaxThreads

\* a worker thread that runs no handler
Idle == [pc |-> "idle", op |-> "none", id |-> 0, student |-> None,
         used |-> 0, len |-> 0, yielded |-> {}, resp |-> [kind |-> "none"]]

Init ==
    /\ students = <<>>
    /\ issued = {}
    /\ req = [op |-> "init"]
    /\ resp = [kind |-> "none"]
    /\ threads = [t \in Threads |-> Idle]

(***************************************************************************)
(* POST /students                                                          *)
(***************************************************************************)
create_student(name, student_class, marks) ==
    LET parsed == StudentIn(name, student_class, marks)
        student == parsed[1]
    IN  /\ req' = [op |-> "create", name |-> name,
                   student_class |-> student_class, marks |-> marks]
        /\ IF parsed = None
           THEN /\ resp' = ValidationError
                /\ UNCHANGED <<students, issued>>
           ELSE IF CreateCollision(students, student)
           THEN /\ resp' = StatusResponse(201, FALSE, MsgDuplicate, None)
                /\ UNCHANGED <<students, issued>>
           ELSE \E student_id \in uuid4(issued) :
                  LET student_out == StudentOut(student_id, student)
                  IN  /\ students' = SetItem(students, student_id, student_out)
                      /\ issued' = issued \cup {student_id}
                      /\ resp' = StatusResponse(201, TRUE, MsgCreated,
                                                Some(student_out))

\* update_student that scans for a collision before it looks the id up
update_studentScanFirst(student_id, name, student_class, marks) ==
    LET parsed == StudentIn(name, student_class, marks)
        updated == parsed[1]
    IN  /\ req' = [op |-> "update", id |-> student_id, name |-> name,
                   student_class |-> student_class, marks |-> marks]
        /\ UNCHANGED issued
        /\ IF parsed = None
           THEN /\ resp' = ValidationError
                /\ UNCHANGED students
           ELSE IF UpdateCollision(students, student_id, updated)
           THEN /\ resp' = StatusResponse(200, FALSE, MsgDuplicate, None)
                /\ UNCHANGED students
           ELSE IF ~Contains(students, student_id)
           THEN /\ resp' = StatusResponse(200, FALSE, MsgNotFound, None)
                /\ UNCHANGED students
           ELSE LET updated_student == StudentOut(student_id, updated)
                IN  /\ students' = SetItem(students, student_id, updated_student)
                    /\ resp' = StatusResponse(200, TRUE, MsgUpdated,
                                              Some(updated_student))

(***************************************************************************)
(* PUT /students/{student_id}                                              *)
(***************************************************************************)
update_student(student_id, name, student_class, marks) ==
    LET parsed == StudentIn(name, student_class, marks)
        updated == parsed[1]
    IN  /\ req' = [op |-> "update", id |-> student_id, name |-> name,
                   student_class |-> student_class, marks |-> marks]
        /\ UNCHANGED issued
        /\ IF parsed = None
           THEN /\ resp' = ValidationError
                /\ UNCHANGED students
           ELSE IF ~Contains(students, student_id)
           THEN /\ resp' = StatusResponse(200, FALSE, MsgNotFound, None)
                /\ UNCHANGED students
           ELSE IF UpdateCollision(students, student_id, updated)
           THEN /\ resp' = StatusResponse(200, FALSE, MsgDuplicate, None)
                /\ UNCHANGED students
           ELSE LET updated_student == StudentOut(student_id, updated)
                IN  /\ students' = SetItem(students, student_id, updated_student)
                    /\ resp' = StatusResponse(200, TRUE, MsgUpdated,
                                              Some(updated_student))

(***************************************************************************)
(* DELETE /students/{student_id}                                           *)
(***************************************************************************)
delete_student(student_id) ==
    /\ req' = [op |-> "delete", id |-> student_id]
    /\ UNCHANGED issued
    /\ IF ~Contains(students, student_id)
       THEN /\ resp' = StatusResponse(200, FALSE, MsgNotFound, None)
            /\ UNCHANGED students
       ELSE /\ students' = Pop(students, student_id)
            /\ resp' = StatusResponse(200, TRUE, MsgDeleted,
                                      Get(students, student_id))

(***************************************************************************)
(* GET /students/{student_id}                                              *)
(***************************************************************************)
get_student_by_id(student_id) ==
    LET student == Get(students, student_id)
    IN  /\ req' = [op |-> "get", id |-> student_id]
        /\ UNCHANGED <<students, issued>>
        /\ IF student = None
           THEN resp' = StatusResponse(200, FALSE, MsgNotFound, None)
           ELSE resp' = StatusResponse(200, TRUE, MsgRetrieved, student)

(***************************************************************************)
(* GET /students                                                           *)
(***************************************************************************)
get_students(sort_by, order, filter_class, min_marks, max_marks) ==
    LET result == Filtered(students, filter_class, min_marks, max_marks)
        sort_attr == Lower(sort_by[1])
        reverse == (order = Some(Desc))
    IN  /\ req' = [op |-> "list", sort_by |-> sort_by, order |-> order,
                   filter_class |-> filter_class, min_marks |-> min_marks,
                   max_marks |-> max_marks]
        /\ UNCHANGED <<students, issued>>
        /\ IF ~QueryMarksOk(min_marks) \/ ~QueryMarksOk(max_marks)
           THEN resp' = ValidationError
           ELSE IF sort_by = None
           THEN resp' = ListResponse(result)
           ELSE IF sort_attr \in SortAttrs
           THEN resp' = ListResponse(Sort(result, sort_attr, reverse))
           ELSE resp' = BadRequest

Create == \E b \in Bodies : create_student(b.name, b.student_class, b.marks)

Update == \E i \in Ids, b \in Bodies :
              update_student(i, b.name, b.student_class, b.marks)

Delete == \E i \in Ids : delete_student(i)

GetByID == \E i \in Ids : get_student_by_id(i)

List == \E q \in Queries :
            get_students(q.sort_by, q.order, q.filter_class, q.min_marks, q.max_marks)

\* one request at a time: each handler runs from start to end
Next ==
    \/ Create /\ UNCHANGED threads
    \/ Update /\ UNCHANGED threads
    \/ Delete /\ UNCHANGED threads
    \/ GetByID /\ UNCHANGED threads
    \/ List /\ UNCHANGED threads

Spec == Init /\ [][Next]_vars

(***************************************************************************)
(* The store under requests whose bodies lie around the length limits.     *)
(***************************************************************************)
CreateLimits ==
    \E b \in LimitBodies : create_student(b.name, b.student_class, b.marks)

UpdateLimits ==
    \E i \in Ids, b \in LimitBodies :
        update_student(i, b.name, b.student_class, b.marks)

NextLimits ==
    \/ CreateLimits /\ UNCHANGED threads
    \/ UpdateLimits /\ UNCHANGED threads
    \/ Delete /\ UNCHANGED threads

SpecLimits == Init /\ [][NextLimits]_vars

(***************************************************************************)
(* Handlers run by the worker threads of the server.  The handlers are     *)
(* plain functions, which the framework runs in a thread pool, and the     *)
(* module takes no lock (students is a bare dict): a thread can be         *)
(* suspended between two accesses to the dict.  A step below is one        *)
(* access: a membership test, one next() of an iterator together with the  *)
(* comparison in the loop body, an item assignment, a pop.  The creation   *)
(* of an iterator is one step with its first next(), as no call lies       *)
(* between the two.                                                        *)
(*   A dict iterator remembers the size of the dict when it was created    *)
(* (used), the number of items it has still to yield (len) and its         *)
(* position.  Entries are kept in insertion order and a key once removed   *)
(* is never inserted again before the position, so the position is given   *)
(* by the keys yielded so far.                                             *)
(***************************************************************************)
\* request bodies sent by concurrent clients: all pass validation
ConcBodies ==
    { Body(<<"a">>, <<"x">>, 0), Body(<<"A", " ">>, <<" ", "X">>, 100),
      Body(<<"b">>, <<"x">>, 0) }

\* an exception that no handler catches: answered 500 by the server
ServerError(exception) == [kind |-> "error", status |-> 500, detail |-> exception]

\* iter(d.values()), iter(d.items())
NewIter(th, d) == [th EXCEPT !.used = Len(d), !.len = Len(d), !.yielded = {}]

\* the entries the iterator has not passed
Ahead(th, d) == { i \in 1..Len(d) : d[i].key \notin th.yielded }

\* next(iterator): "size" and "keys" are the two RuntimeErrors of a dict
\* iterator, "stop" is StopIteration, "item" comes with the index of the
\* entry that is yielded
IterNext(th, d) ==
    IF th.used # Len(d) THEN [kind |-> "size", index |-> 0]
    ELSE IF Ahead(th, d) = {} THEN [kind |-> "stop", index |-> 0]
    ELSE IF th.len = 0 THEN [kind |-> "keys", index |-> 0]
    ELSE [kind |-> "item",
          index |-> CHOOSE i \in Ahead(th, d) : \A j \in Ahead(th, d) : i <= j]

Finish(th, response) == [th EXCEPT !.pc = "done", !.resp = response]

Free(t) == threads[t].pc \in {"idle", "done"}

\* creates that have not yet drawn their identifier
PendingCreates == { t \in Threads : threads[t].pc = "c_scan" \/ threads[t].pc = "c_insert" }

\* one round of the loop of create_student, run by a thread in state th
CreateRound(th, d) ==
    LET nxt == IterNext(th, d)
        s == d[nxt.index].value
    IN  IF nxt.kind = "size" \/ nxt.kind = "keys"
        THEN Finish(th, ServerError("RuntimeError"))
        ELSE IF nxt.kind = "stop"
        THEN [th EXCEPT !.pc = "c_insert"]
        ELSE IF SamePair(s, th.student[1])
        THEN Finish(th, StatusResponse(201, FALSE, MsgDuplicate, None))
        ELSE [th EXCEPT !.len = th.len - 1,
                        !.yielded = th.yielded \cup {d[nxt.index].key}]

\* create_student up to the first round of the loop
BeginCreate(t, b) ==
    /\ Free(t)
    /\ Cardinality(issued) + Cardinality(PendingCreates) < MaxIds
    /\ threads' = [threads EXCEPT ![t] =
           CreateRound(
               NewIter([Idle EXCEPT !.pc = "c_scan", !.op = "create",
                                    !.student = StudentIn(b.name, b.student_class, b.marks)],
                       students),
               students)]
    /\ UNCHANGED <<students, issued, req, resp>>

\* a later round of the loop of create_student
CreateScan(t) ==
    /\ threads[t].pc = "c_scan"
    /\ threads' = [threads EXCEPT ![t] = CreateRound(threads[t], students)]
    /\ UNCHANGED <<students, issued, req, resp>>

\* create_student after the loop
CreateInsert(t) ==
    LET th == threads[t]
    IN  /\ th.pc = "c_insert"
        /\ \E student_id \in uuid4(issued) :
             LET student_out == StudentOut(student_id, th.student[1])
             IN  /\ students' = SetItem(students, student_id, student_out)
                 /\ issued' = issued \cup {student_id}
                 /\ threads' = [threads EXCEPT ![t] =
                        Finish([th EXCEPT !.id = student_id],
                               StatusResponse(201, TRUE, MsgCreated, Some(student_out)))]
        /\ UNCHANGED <<req, resp>>

\* update_student up to the membership test
BeginUpdate(t, student_id, b) ==
    LET th == [Idle EXCEPT !.op = "update", !.id = student_id,
                           !.student = StudentIn(b.name, b.student_class, b.marks)]
    IN  /\ Free(t)
        /\ threads' = [threads EXCEPT ![t] =
               IF ~Contains(students, student_id)
               THEN Finish(th, StatusResponse(200, FALSE, MsgNotFound, None))
               ELSE [th EXCEPT !.pc = "u_iter"]]
        /\ UNCHANGED <<students, issued, req, resp>>

\* one round of the loop of update_student, run by a thread in state th
UpdateRound(th, d) ==
    LET nxt == IterNext(th, d)
        sid == d[nxt.index].key
        s == d[nxt.index].value
    IN  IF nxt.kind = "size" \/ nxt.kind = "keys"
        THEN Finish(th, ServerError("RuntimeError"))
        ELSE IF nxt.kind = "stop"
        THEN [th EXCEPT !.pc = "u_write"]
        ELSE IF sid # th.id /\ SamePair(s, th.student[1])
        THEN Finish(th, StatusResponse(200, FALSE, MsgDuplicate, None))
        ELSE [th EXCEPT !.len = th.len - 1,
                        !.yielded = th.yielded \cup {sid}]

\* update_student: the first round of the loop
UpdateIter(t) ==
    /\ threads[t].pc = "u_iter"
    /\ threads' = [threads EXCEPT ![t] =
           UpdateRound(NewIter([threads[t] EXCEPT !.pc = "u_scan"], students),
                       students)]
    /\ UNCHANGED <<students, issued, req, resp>>

\* a later round of the loop of update_student
UpdateScan(t) ==
    /\ threads[t].pc = "u_scan"
    /\ threads' = [threads EXCEPT ![t] = UpdateRound(threads[t], students)]
    /\ UNCHANGED <<students, issued, req, resp>>

\* update_student after the loop
UpdateWrite(t) ==
    LET th == threads[t]
        updated_student == StudentOut(th.id, th.student[1])
    IN  /\ th.pc = "u_write"
        /\ students' = SetItem(students, th.id, updated_student)
        /\ threads' = [threads EXCEPT ![t] =
               Finish(th, StatusResponse(200, TRUE, MsgUpdated, Some(updated_student)))]
        /\ UNCHANGED <<issued, req, resp>>

\* delete_student up to the membership test
BeginDelete(t, student_id) ==
    LET th == [Idle EXCEPT !.op = "delete", !.id = student_id]
    IN  /\ Free(t)
        /\ threads' = [threads EXCEPT ![t] =
               IF ~Contains(students, student_id)
               THEN Finish(th, StatusResponse(200, FALSE, MsgNotFound, None))
               ELSE [th EXCEPT !.pc = "d_pop"]]
        /\ UNCHANGED <<students, issued, req, resp>>

\* delete_student: students.pop(student_id), a KeyError when the key has
\* gone since the test
DeletePop(t) ==
    LET th == threads[t]
    IN  /\ th.pc = "d_pop"
        /\ IF ~Contains(students, th.id)
           THEN /\ threads' = [threads EXCEPT ![t] = Finish(th, ServerError("KeyError"))]
                /\ UNCHANGED students
           ELSE /\ students' = Pop(students, th.id)
                /\ threads' = [threads EXCEPT ![t] =
                       Finish(th, StatusResponse(200, TRUE, MsgDeleted,
                                                 Get(students, th.id)))]
        /\ UNCHANGED <<issued, req, resp>>

NextThreads ==
    \/ \E t \in Threads, b \in ConcBodies : BeginCreate(t, b)
    \/ \E t \in Threads : CreateScan(t)
    \/ \E t \in Threads : CreateInsert(t)
    \/ \E t \in Threads, i \in Ids, b \in ConcBodies : BeginUpdate(t, i, b)
    \/ \E t \in Threads : UpdateIter(t)
    \/ \E t \in Threads : UpdateScan(t)
    \/ \E t \in Threads : UpdateWrite(t)
    \/ \E t \in Threads, i \in Ids : BeginDelete(t, i)
    \/ \E t \in Threads : DeletePop(t)

SpecThreads == Init /\ [][NextThreads]_vars

(***************************************************************************)
(* Vocabulary of the properties.                                           *)
(***************************************************************************)
\* a (name, class) pair as the uniqueness rule compares it
PairKey(name, student_class) == <<Lower(name), Lower(student_class)>>

RecordKey(r) == PairKey(r.name, r.student_class)

\* the request body r passes validation
ValidRequest(r) == StudentIn(r.name, r.student_class, r.marks) # None

\* the pair a validated request body carries
RequestKey(r) == PairKey(Strip(r.name), Strip(r.student_class))

IsOutcome(r) == r.kind = "outcome"

NotFoundOutcome == StatusResponse(200, FALSE, MsgNotFound, None)

(***************************************************************************)
(* C1: no two distinct live records have the same (name, class) pair when  *)
(* both fields are compared without regard to letter case.                 *)
(***************************************************************************)
C1_UniquePairs ==
    \A i, j \in 1..Len(students) :
        i # j => RecordKey(students[i].value) # RecordKey(students[j].value)

\* two records live, after an update that was accepted
C1_Witness ==
    /\ Len(students) = 2
    /\ req.op = "update"
    /\ IsOutcome(resp) /\ resp.success

(***************************************************************************)
(* C2: a Create whose validated (name, class) pair matches, without regard *)
(* to letter case, the pair of a stored record answers success=false with  *)
(* data=null and leaves the store as it was.                               *)
(***************************************************************************)
C2_CreateDuplicateRejected ==
    [][ ( /\ req'.op = "create"
          /\ ValidRequest(req')
          /\ \E i \in 1..Len(students) :
                 RecordKey(students[i].value) = RequestKey(req') )
        => ( /\ IsOutcome(resp')
             /\ resp'.success = FALSE
             /\ resp'.data = None
             /\ students' = students ) ]_vars

\* a rejected Create whose name is spelled differently from the stored one
C2_Witness ==
    /\ req.op = "create"
    /\ IsOutcome(resp) /\ resp.success = FALSE
    /\ \E i \in 1..Len(students) :
           /\ RecordKey(students[i].value) = RequestKey(req)
           /\ students[i].value.name # Strip(req.name)

(***************************************************************************)
(* C3: a successful Create immediately followed by GetByID on the id of    *)
(* the Create outcome answers success=true with a record that has the      *)
(* generated id and the name, class and marks of the input.                *)
(*   C3_RoundTripRaw states it for the fields as sent; C3_RoundTripTrimmed *)
(* for the name and class with leading and trailing blanks removed.        *)
(***************************************************************************)
CreatedThenFetched ==
    /\ req.op = "create"
    /\ IsOutcome(resp) /\ resp.success
    /\ req'.op = "get"
    /\ req'.id = resp.data[1].id

C3_RoundTripRaw ==
    [][ CreatedThenFetched
        => ( /\ resp'.success
             /\ resp'.data = Some([id |-> resp.data[1].id,
                                   name |-> req.name,
                                   student_class |-> req.student_class,
                                   marks |-> req.marks]) ) ]_vars

C3_RoundTripTrimmed ==
    [][ CreatedThenFetched
        => ( /\ resp'.success
             /\ resp'.data = Some([id |-> resp.data[1].id,
                                   name |-> Strip(req.name),
                                   student_class |-> Strip(req.student_class),
                                   marks |-> req.marks]) ) ]_vars

\* the only record ever created is fetched; it was sent with blanks around
\* its name and class
C3_Witness ==
    /\ req.op = "get"
    /\ IsOutcome(resp) /\ resp.success
    /\ issued = {req.id}
    /\ resp.data[1].name = <<"A">>
    /\ resp.data[1].student_class = <<"X">>

(***************************************************************************)
(* C4: an Update (with a valid body) whose id is not a key of the store    *)
(* answers success=false, not-found, data=null and leaves the store as it  *)
(* was, also when the supplied pair collides with a stored record.         *)
(***************************************************************************)
C4_UpdateMissingId ==
    [][ ( /\ req'.op = "update"
          /\ ValidRequest(req')
          /\ req'.id \notin Keys(students) )
        => ( /\ resp' = NotFoundOutcome
             /\ students' = students ) ]_vars

\* not-found although the supplied pair is the pair of a stored record
C4_Witness ==
    /\ req.op = "update"
    /\ resp = NotFoundOutcome
    /\ \E i \in 1..Len(students) :
           RecordKey(students[i].value) = RequestKey(req)

(***************************************************************************)
(* C5: an Update (with a valid body) on an existing id answers the         *)
(* duplicate outcome, store untouched, exactly when a record under another *)
(* id holds the supplied pair; otherwise it succeeds, so re-supplying the  *)
(* record's own pair in any letter case succeeds.                          *)
(***************************************************************************)
OtherHolds(d, id, r) ==
    \E i \in 1..Len(d) : d[i].key # id /\ RecordKey(d[i].value) = RequestKey(r)

SelfHolds(d, id, r) ==
    \E i \in 1..Len(d) : d[i].key = id /\ RecordKey(d[i].value) = RequestKey(r)

C5_UpdateDuplicateExactly ==
    [][ ( /\ req'.op = "update"
          /\ ValidRequest(req')
          /\ req'.id \in Keys(students) )
        => IF OtherHolds(students, req'.id, req')
           THEN /\ resp' = StatusResponse(200, FALSE, MsgDuplicate, None)
                /\ students' = students
           ELSE /\ IsOutcome(resp') /\ resp'.success
                /\ resp'.message = MsgUpdated ]_vars

\* an accepted update that kept the record's pair, spelled in another case,
\* while a second record is live
C5_Witness ==
    /\ req.op = "update"
    /\ IsOutcome(resp) /\ resp.success
    /\ Len(students) = 2
    /\ req.name = <<"A", " ">>
    /\ req.student_class = <<"x">>

(***************************************************************************)
(* C6: after a successful Delete(id) the id is not a key of the store, it  *)
(* never becomes one again whatever operations follow, and GetByID on it   *)
(* answers success=false, not-found.                                       *)
(***************************************************************************)
Dead(d, used) == used \ Keys(d)

C6_DeletedStaysGone ==
    [][ /\ ( (req'.op = "delete" /\ resp'.success)
             => (req'.id \notin Keys(students') /\ req'.id \in Dead(students', issued')) )
        /\ \A i \in Dead(students, issued) : i \in Dead(students', issued')
        /\ ( (req'.op = "get" /\ req'.id \in Dead(students, issued))
             => resp' = NotFoundOutcome ) ]_vars

\* a deleted id is looked up while a record created afterwards is live
C6_Witness ==
    /\ req.op = "get"
    /\ resp = NotFoundOutcome
    /\ req.id \in Dead(students, issued)
    /\ students # <<>>

(***************************************************************************)
(* C7: the id of a successful Create differs from the id of every earlier  *)
(* Create, deleted records included, and the id of a live record does not  *)
(* change while the record is in the store.                                *)
(***************************************************************************)
IdOf(d, k) == d[IndexOf(d, k)].value.id

C7_IdsFreshAndStable ==
    [][ /\ ( (req'.op = "create" /\ IsOutcome(resp') /\ resp'.success)
             => ( /\ resp'.data[1].id \notin issued
                  /\ resp'.data[1].id \in Keys(students') \ Keys(students) ) )
        /\ \A k \in Keys(students) \cap Keys(students') :
               IdOf(students', k) = IdOf(students, k) ]_vars

\* a Create succeeded after an earlier record had been deleted
C7_Witness ==
    /\ req.op = "create"
    /\ IsOutcome(resp) /\ resp.success
    /\ Dead(students, issued) # {}

(***************************************************************************)
(* C8: List with sort_by equal to "class" in any letter case is accepted   *)
(* and returns the filtered records ordered by class, letter case ignored. *)
(***************************************************************************)
StrClass == <<"c","l","a","s","s">>

OrderedByClass(result) ==
    \A i, j \in 1..Len(result) :
        i < j => ~KeyLess(StrKey(Lower(result[j].student_class)),
                          StrKey(Lower(result[i].student_class)))

C8_SortByClassAccepted ==
    ( /\ req.op = "list"
      /\ req.sort_by # None
      /\ Lower(req.sort_by[1]) = StrClass
      /\ req.order = Some(Asc) )
    => ( /\ resp.kind = "list"
         /\ OrderedByClass(resp.data) )

(***************************************************************************)
(* C9: List with a sort_by that is none of name, marks, class (letter case *)
(* ignored) fails with status 400 and returns no records.                  *)
(***************************************************************************)
C9_UnknownSortRejected ==
    ( /\ req.op = "list"
      /\ req.sort_by # None
      /\ Lower(req.sort_by[1]) \notin {StrName, StrMarks, StrClass} )
    => ( /\ resp.kind = "error"
         /\ resp.status = 400 )

(***************************************************************************)
(* C10: a List that returns records returns exactly the stored records     *)
(* that pass every supplied filter (class equal to filter_class letter for *)
(* letter, marks >= min_marks, marks <= max_marks), each once; none when   *)
(* none passes.                                                            *)
(***************************************************************************)
Passes(r, q) ==
    /\ q.filter_class # None => r.student_class = q.filter_class[1]
    /\ q.min_marks # None => r.marks >= q.min_marks[1]
    /\ q.max_marks # None => r.marks <= q.max_marks[1]

Matching(d, q) == { r \in { d[i].value : i \in 1..Len(d) } : Passes(r, q) }

ChosenKey(attr, r) ==
    IF attr = StrName THEN StrKey(Lower(r.name))
    ELSE IF attr = StrMarks THEN <<r.marks>>
    ELSE StrKey(Lower(r.student_class))

OrderedBy(result, attr, descending) ==
    \A i, j \in 1..Len(result) :
        i < j => IF descending
                 THEN ~KeyLess(ChosenKey(attr, result[i]), ChosenKey(attr, result[j]))
                 ELSE ~KeyLess(ChosenKey(attr, result[j]), ChosenKey(attr, result[i]))

PermutationOfMatching(result, d, q) ==
    /\ { result[i] : i \in 1..Len(result) } = Matching(d, q)
    /\ Len(result) = Cardinality(Matching(d, q))

C11_SortedPermutation ==
    ( /\ req.op = "list"
      /\ QueryMarksOk(req.min_marks) /\ QueryMarksOk(req.max_marks)
      /\ req.sort_by # None
      /\ Lower(req.sort_by[1]) \in {StrName, StrMarks, StrClass} )
    => ( /\ resp.kind = "list"
         /\ PermutationOfMatching(resp.data, students, req)
         /\ OrderedBy(resp.data, Lower(req.sort_by[1]), req.order = Some(Desc)) )

(***************************************************************************)
(* C13: Create and Update accept a request body exactly when name, class   *)
(* and marks are acceptable, and a rejected request leaves the store as it *)
(* was.                                                                    *)
(*   C13_ValidationTrimmed takes the length bounds (1..100 for the name,   *)
(* 1..20 for the class) on the trimmed value; C13_ValidationRaw takes them *)
(* on the value as received and asks the trimmed value to be non-empty.    *)
(***************************************************************************)
MarksAcceptable(m) == m >= 0 /\ m <= 100

TrimAccepted(r) ==
    /\ Len(Strip(r.name)) >= 1 /\ Len(Strip(r.name)) <= 100
    /\ Len(Strip(r.student_class)) >= 1 /\ Len(Strip(r.student_class)) <= 20
    /\ MarksAcceptable(r.marks)

NotBlank(v) == \E i \in 1..Len(v) : v[i] # " "

RawAccepted(r) ==
    /\ Len(r.name) >= 1 /\ Len(r.name) <= 100 /\ NotBlank(r.name)
    /\ Len(r.student_class) >= 1 /\ Len(r.student_class) <= 20
    /\ NotBlank(r.student_class)
    /\ MarksAcceptable(r.marks)

C13_ValidationTrimmed ==
    [][ req'.op \in {"create", "update"}
        => ( /\ IsOutcome(resp') <=> TrimAccepted(req')
             /\ ~TrimAccepted(req') => students' = students ) ]_vars

C13_ValidationRaw ==
    [][ req'.op \in {"create", "update"}
        => ( /\ IsOutcome(resp') <=> RawAccepted(req')
             /\ ~RawAccepted(req')
                => (resp' = ValidationError /\ students' = students) ) ]_vars

\* a name of 100 letters behind one blank was rejected while a record is
\* stored
C13_Witness ==
    /\ req.op = "create"
    /\ resp = ValidationError
    /\ Len(req.name) = 101
    /\ Len(Strip(req.name)) = 100
    /\ students # <<>>

C15_CreateFrame ==
    [][ req'.op = "create"
        => IF IsOutcome(resp') /\ resp'.success
           THEN /\ Len(students') = Len(students) + 1
                /\ Cardinality(Keys(students')) = Cardinality(Keys(students)) + 1
                /\ Keys(students') = Keys(students) \cup {resp'.data[1].id}
                /\ Get(students', resp'.data[1].id) = resp'.data
                /\ \A k \in Keys(students) : Get(students', k) = Get(students, k)
           ELSE students' = students ]_vars

\* a second record was created
C15_Witness ==
    /\ req.op = "create"
    /\ IsOutcome(resp) /\ resp.success
    /\ Len(students) = 2
    /\ students[2].key = resp.data[1].id

(***************************************************************************)
(* C16: Delete of a present id removes that entry only and answers         *)
(* success=true with the record as it was stored just before; Delete of an *)
(* absent id answers not-found and leaves the store as it was, so a second *)
(* Delete of the same id fails.                                            *)
(***************************************************************************)
C16_DeleteFrame ==
    [][ req'.op = "delete"
        => IF req'.id \in Keys(students)
           THEN /\ resp' = StatusResponse(200, TRUE, MsgDeleted,
                                          Get(students, req'.id))
                /\ Keys(students') = Keys(students) \ {req'.id}
                /\ Len(students') = Len(students) - 1
                /\ \A k \in Keys(students') : Get(students', k) = Get(students, k)
           ELSE /\ resp' = NotFoundOutcome
                /\ students' = students
                /\ (req.op = "delete" /\ req.id = req'.id) => ~resp'.success ]_vars

\* one of two records was deleted; the outcome carries the values a
\* previous request had given it
C16_Witness ==
    /\ req.op = "delete"
    /\ IsOutcome(resp) /\ resp.success
    /\ Len(students) = 1
    /\ resp.data[1].id = req.id
    /\ resp.data[1].name = <<"A">>
    /\ resp.data[1].marks = 100

(***************************************************************************)
(* C18: every entry's key is the id of the record stored under it, every   *)
(* stored record has a non-empty name and class without leading or         *)
(* trailing blanks and marks in 0..100, and List and GetByID leave the     *)
(* store as it was.                                                        *)
(***************************************************************************)
Trimmed(v) == v # <<>> /\ v[1] # " " /\ v[Len(v)] # " "

WellFormed(d) ==
    \A i \in 1..Len(d) :
        /\ d[i].value.id = d[i].key
        /\ Trimmed(d[i].value.name)
        /\ Trimmed(d[i].value.student_class)
        /\ d[i].value.marks >= 0 /\ d[i].value.marks <= 100

C18_StoreWellFormed ==
    [][ /\ WellFormed(students')
        /\ req'.op \in {"list", "get"} => students' = students ]_vars

\* a List over two records, one of them sent with blanks around its fields
C18_Witness ==
    /\ req.op = "list"
    /\ resp.kind = "list"
    /\ Len(students) = 2
    /\ \E i \in 1..2 : students[i].value.name = <<"A">>
                       /\ students[i].value.student_class = <<"X">>

(***************************************************************************)
(* C12: with handlers running in concurrent threads, two requests that     *)
(* carry the same (name, class) pair, letter case ignored, never both      *)
(* succeed, and no two live records hold the same pair.                    *)
(***************************************************************************)
Succeeded(th) ==
    /\ th.pc = "done"
    /\ th.op \in {"create", "update"}
    /\ th.resp.kind = "outcome"
    /\ th.resp.success

C12_ThreadsKeepPairsUnique ==
    /\ \A t, u \in Threads :
           ( /\ t # u
             /\ Succeeded(threads[t]) /\ Succeeded(threads[u])
             /\ RecordKey(threads[t].student[1]) = RecordKey(threads[u].student[1]) )
           => ~( /\ Get(students, threads[t].id) = threads[t].resp.data
                 /\ Get(students, threads[u].id) = threads[u].resp.data )
    /\ \A i, j \in 1..Len(students) :
           i < j => RecordKey(students[i].value) # RecordKey(students[j].value)

(***************************************************************************)
(* C17: with handlers running in concurrent threads, every Create and      *)
(* Update ends with one of the defined outcomes (success, duplicate,       *)
(* not-found), never with an error that no handler catches.                *)
(***************************************************************************)
C17_NoUnhandledError ==
    \A t \in Threads :
        (threads[t].pc = "done" /\ threads[t].op \in {"create", "update"})
        => ( /\ threads[t].resp.kind = "outcome"
             /\ threads[t].resp.message
                    \in {MsgCreated, MsgUpdated, MsgDuplicate, MsgNotFound} )

====
